---------------------------- MODULE Spec2Model ----------------------------
(***************************************************************************)
(* A model of ilcs-scrape.py: the filename classifier (_parse_filestring  *)
(* and the label mapping of build_ilcs_index), the three-level crawl of   *)
(* build_ilcs_index over _get_pages/_request_util, the batch loops of     *)
(* build_acts_text_table/build_statutes_text_table, and the line scan and *)
(* indentation reconstruction of parse_statute_page.                      *)
(*                                                                         *)
(* Python strings are modelled as sequences of one-character strings.     *)
(* Each function has its own specification (SpecFile, SpecCrawl,          *)
(* SpecBatch, SpecStatute); while one runs, the others' variables rest at *)
(* their idle values.                                                      *)
(***************************************************************************)
EXTENDS Integers, Sequences, FiniteSets, TLC

VARIABLES
    \* ---- filename classifier ----
    fpc,                \* "start" | "parsed" | "labelled"
    code, mid, resid, suffix,   \* the parts the filename s was built from
    s,                  \* the filename handed to _parse_filestring
    first_9_digits, letters, remaining_numbers,   \* the returned triple
    ilcs_index_type_label,
    \* ---- build_ilcs_index ----
    cpc,                \* "root" | "chapters" | "acts" | "classify" | "returned" | "raised"
    chapters_data, acts_data,   \* the listings being iterated
    ci, ai,             \* positions of the two for-loops
    df_index,           \* the accumulated index rows
    exc,                \* the exception that ended the crawl, "" if none
    fetches,            \* history: what every _get_pages call was served
    \* ---- build_acts_text_table / build_statutes_text_table ----
    bpc,                \* "loop" | "returned"
    table_fn,           \* which of the two table builders runs
    df_urls,            \* the index handed in
    bi,                 \* position in the filtered section_url column
    df_text,            \* the accumulated text table
    parses,             \* history: every parse_fn call and how it ended
    \* ---- parse_statute_page ----
    spc,                \* "flatten" | "scan" | "done"
    nodes,              \* the children of <body>, in document order
    all_text,           \* soup.body.get_text(separator='\n', strip=True)
    cut,                \* how many characters of all_text the amendment split dropped
    lines, li,          \* the lines being scanned and the loop position
    found_section, found_statute_text,
    section_number, source, amended_statute,
    statute_text_lines, statute_text,
    captured,           \* history: which line each entry of statute_text_lines came from
    sec_line, src_line  \* history: which line set section_number and source (0: none)

fileVars == <<fpc, code, mid, resid, suffix, s,
              first_9_digits, letters, remaining_numbers, ilcs_index_type_label>>

crawlVars == <<cpc, chapters_data, acts_data, ci, ai, df_index, exc, fetches>>

batchVars == <<bpc, table_fn, df_urls, bi, df_text, parses>>

statuteVars == <<spc, nodes, all_text, cut, lines, li, found_section,
                 found_statute_text, section_number, source, amended_statute,
                 statute_text_lines, statute_text, captured, sec_line, src_line>>

vars == <<fileVars, crawlVars, batchVars, statuteVars>>

notFile == <<crawlVars, batchVars, statuteVars>>

notCrawl == <<fileVars, batchVars, statuteVars>>

notBatch == <<fileVars, crawlVars, statuteVars>>

notStatute == <<fileVars, crawlVars, batchVars>>

-----------------------------------------------------------------------------
(* Generic helpers                                                         *)

SetMin(S) == CHOOSE x \in S : \A y \in S : x <= y

IMin(a, b) == IF a <= b THEN a ELSE b

IMax(a, b) == IF a >= b THEN a ELSE b

RECURSIVE Flatten(_)
Flatten(ss) == IF ss = <<>> THEN <<>> ELSE Head(ss) \o Flatten(Tail(ss))

\* All sequences over S of length 0..n
SeqsUpTo(S, n) == UNION {[1..k -> S] : k \in 0..n}

-----------------------------------------------------------------------------
(* Python string primitives                                                *)

\* sub occurs in str at 0-based offset i
OccursAt(str, sub, i) ==
    /\ i >= 0
    /\ i + Len(sub) <= Len(str)
    /\ SubSeq(str, i + 1, i + Len(sub)) = sub

\* str.find(sub, start): lowest 0-based offset >= start, -1 when absent
PyFind(str, sub, start) ==
    LET hits == {i \in start..(Len(str) - Len(sub)) : OccursAt(str, sub, i)}
    IN  IF hits = {} THEN -1 ELSE SetMin(hits)

\* A slice index as Python normalises it: negative counts from the end,
\* then clamped into 0..len
PyIndex(str, i) ==
    IF i < 0 THEN IMax(0, Len(str) + i) ELSE IMin(i, Len(str))

\* str[a:b]
PySlice(str, a, b) == SubSeq(str, PyIndex(str, a) + 1, PyIndex(str, b))

\* str[a:]
PySliceFrom(str, a) == SubSeq(str, PyIndex(str, a) + 1, Len(str))

-----------------------------------------------------------------------------
(* _parse_filestring                                                       *)

CodeLen == 9

Digits9 == <<"0", "0", "5", "0", "0", "0", "0", "5", "0">>

Html == <<".", "h", "t", "m", "l">>

\* r'(A|F|K|HArt.|HTit.|HPt.|HDiv.|Hprec.|HCh.)': the alternatives in
\* order, each a literal followed by `wild` unescaped dots.
LettersPatternTypo ==
    << [lit |-> <<"A">>, wild |-> 0],
       [lit |-> <<"F">>, wild |-> 0],
       [lit |-> <<"K">>, wild |-> 0],
       [lit |-> <<"H", "A", "r", "t">>, wild |-> 0],
       [lit |-> <<"H", "T", "i", "t">>, wild |-> 0],
       [lit |-> <<"H", "P", "t">>, wild |-> 0],
       [lit |-> <<"H", "D", "i", "v">>, wild |-> 0],
       [lit |-> <<"H", "p", "r", "e", "c">>, wild |-> 0],
       [lit |-> <<"H", "C", "h">>, wild |-> 0] >>

LettersPattern ==
    << [lit |-> <<"A">>, wild |-> 0],
       [lit |-> <<"F">>, wild |-> 0],
       [lit |-> <<"K">>, wild |-> 0],
       [lit |-> <<"H", "A", "r", "t">>, wild |-> 1],
       [lit |-> <<"H", "T", "i", "t">>, wild |-> 1],
       [lit |-> <<"H", "P", "t">>, wild |-> 1],
       [lit |-> <<"H", "D", "i", "v">>, wild |-> 1],
       [lit |-> <<"H", "p", "r", "e", "c">>, wild |-> 1],
       [lit |-> <<"H", "C", "h">>, wild |-> 1] >>

\* One alternative matches str at 0-based offset i: the literal, then
\* `wild` characters none of which is a newline (re's dot without DOTALL).
AltMatches(str, i, alt) ==
    /\ OccursAt(str, alt.lit, i)
    /\ i + Len(alt.lit) + alt.wild <= Len(str)
    /\ \A k \in 1..alt.wild : str[i + Len(alt.lit) + k] # "\n"

\* pattern.search(str): the leftmost offset at which some alternative
\* matches, and there the first alternative in order; group(0) is text.
RegexSearch(pattern, str) ==
    LET at(i) == {a \in 1..Len(pattern) : AltMatches(str, i, pattern[a])}
        offs  == {i \in 0..Len(str) : at(i) # {}}
    IN  IF offs = {}
        THEN [found |-> FALSE, text |-> <<>>]
        ELSE LET i   == SetMin(offs)
                 alt == pattern[SetMin(at(i))]
             IN  [found |-> TRUE,
                  text  |-> SubSeq(str, i + 1, i + Len(alt.lit) + alt.wild)]

\* The whole function, searching the pattern from offset 0 instead of 9.
ParseFilestringFromZero(str) ==
    LET first   == PySlice(str, 0, CodeLen)
        m       == RegexSearch(LettersPattern, str)
        lets    == IF m.found THEN m.text ELSE <<>>
        pos     == IF lets # <<>> THEN PyFind(str, lets, CodeLen) ELSE -1
        remain  == IF pos # -1
                   THEN PySlice(str, pos + Len(lets), PyFind(str, Html, 0))
                   ELSE <<>>
    IN  <<first, lets, remain>>

\* _parse_filestring(s) -> (first_9_digits, letters, remaining_numbers)
ParseFilestring(str) ==
    LET first   == PySlice(str, 0, CodeLen)
        m       == RegexSearch(LettersPattern, PySliceFrom(str, CodeLen))
        lets    == IF m.found THEN m.text ELSE <<>>
        pos     == IF lets # <<>> THEN PyFind(str, lets, CodeLen) ELSE -1
        remain  == IF pos # -1
                   THEN PySlice(str, pos + Len(lets), PyFind(str, Html, 0))
                   ELSE <<>>
    IN  <<first, lets, remain>>

\* The mapping table of build_ilcs_index
mapping ==
    (<<"A">> :> "Chapter (A)") @@
    (<<"F">> :> "Act (F)") @@
    (<<"K">> :> "Section (K)") @@
    (<<"H", "A", "r", "t", ".">> :> "Article (HArt)") @@
    (<<"H", "P", "t", ".">> :> "Part (HPt)") @@
    (<<"H", "T", "i", "t", ".">> :> "Title (HTit)") @@
    (<<"H", "D", "i", "v", ".">> :> "Division (HDiv)") @@
    (<<"H", "A", "r", "t", " ">> :> "Article (HArtDiv)") @@
    (<<"H", "p", "r", "e", "c", ".">> :> "Preceding Section (HprecSec)") @@
    (<<"H", "A", "r", "t", ",">> :> "Article (HArt)") @@
    (<<"H", "C", "h", ".">> :> "Chapter (HCh)") @@
    (<<"H", "C", "h", " ">> :> "Chapter (HChArt)")

\* df_index['ilcs_index_type'].map(mapping).fillna('Unknown'), one row
TypeLabel(type) ==
    IF type \in DOMAIN mapping THEN mapping[type] ELSE "Unknown"

FileIdle ==
    /\ fpc = "idle"
    /\ code = <<>>
    /\ mid = <<>>
    /\ resid = <<>>
    /\ suffix = <<>>
    /\ s = <<>>
    /\ first_9_digits = <<>>
    /\ letters = <<>>
    /\ remaining_numbers = <<>>
    /\ ilcs_index_type_label = "-"

BatchIdle ==
    /\ bpc = "idle"
    /\ table_fn = "-"
    /\ df_urls = <<>>
    /\ bi = 0
    /\ df_text = <<>>
    /\ parses = <<>>

StatuteIdle ==
    /\ spc = "idle"
    /\ nodes = <<>>
    /\ all_text = <<>>
    /\ cut = 0
    /\ lines = <<>>
    /\ li = 0
    /\ found_section = FALSE
    /\ found_statute_text = FALSE
    /\ section_number = <<>>
    /\ source = <<>>
    /\ amended_statute = FALSE
    /\ statute_text_lines = <<>>
    /\ statute_text = <<>>
    /\ captured = <<>>
    /\ sec_line = 0
    /\ src_line = 0

-----------------------------------------------------------------------------
(* _request_util and _get_pages                                            *)

ParentDirLabel ==
    <<"[", "T", "o", " ", "P", "a", "r", "e", "n", "t", " ",
      "D", "i", "r", "e", "c", "t", "o", "r", "y", "]">>

ReadMeLabel == <<"a", "R", "e", "a", "d", "M", "e">>

\* How one GET can end: a response, or one of the exceptions caught in turn
Outcomes == {"ok", "Timeout", "ConnectionError", "HTTPError", "RequestException"}

\* _request_util: the response, None for the three handled failures, and
\* the exception re-raised for any other RequestException
RequestUtil(outcome) ==
    CASE outcome = "ok" -> [raised |-> "", response |-> "Response"]
      [] outcome \in {"Timeout", "ConnectionError", "HTTPError"}
                         -> [raised |-> "", response |-> "None"]
      [] OTHER           -> [raised |-> "RequestException", response |-> "None"]

RECURSIVE SelectSeq2(_, _)
SelectSeq2(sq, keep) ==
    IF sq = <<>> THEN <<>>
    ELSE (IF sq[1].label \in keep THEN <<>> ELSE <<sq[1]>>)
         \o SelectSeq2(Tail(sq), keep)

\* _get_pages: `links` are the anchors of the page's <pre>, in order.
\* response.text on None raises AttributeError; json_normalize of an empty
\* list has no 'label' column, so the aReadMe filter raises KeyError.
GetPages(outcome, links) ==
    LET r == RequestUtil(outcome)
        url_links == SelectSeq2(links, {ParentDirLabel})
    IN  IF r.raised # "" THEN [raised |-> r.raised, data |-> <<>>]
        ELSE IF r.response = "None" THEN [raised |-> "AttributeError", data |-> <<>>]
        ELSE IF url_links = <<>> THEN [raised |-> "KeyError", data |-> <<>>]
        ELSE [raised |-> "", data |-> SelectSeq2(url_links, {ReadMeLabel})]

-----------------------------------------------------------------------------
(* The site served to the crawl                                            *)

MaxLinks == 2

Digit(i) == <<"0", "1", "2", "3", "4", "5", "6", "7", "8", "9">>[i + 1]

\* Section filenames by position in an act's listing
SectionFile(k) ==
    Digits9 \o
    (CASE k % 3 = 1 -> <<"K">>
       [] k % 3 = 2 -> <<"F">>
       [] OTHER     -> <<"H", "A", "r", "t", " ">>)
    \o <<Digit(k)>> \o Html

\* A directory page under `path`: the parent-directory anchor, then one
\* anchor per kind. "new" is a fresh entry, "dup" repeats the first
\* entry's href under another label, "readme" is the aReadMe file.
RECURSIVE PageLinks(_, _, _, _)
PageLinks(level, path, kinds, n) ==
    IF kinds = <<>> THEN <<>>
    ELSE LET k == Head(kinds)
             lab == IF level = "act" THEN SectionFile(n)
                    ELSE <<(IF level = "root" THEN "C" ELSE "A"), Digit(n)>>
         IN  IF k = "readme"
             THEN <<[label |-> ReadMeLabel, href |-> path \o <<0>>]>>
                  \o PageLinks(level, path, Tail(kinds), n)
             ELSE <<[label |-> lab,
                     href  |-> path \o <<(IF k = "dup" THEN 1 ELSE n)>>]>>
                  \o PageLinks(level, path, Tail(kinds), n + 1)

Page(level, path, kinds) ==
    <<[label |-> ParentDirLabel, href |-> path]>> \o PageLinks(level, path, kinds, 1)

PageKinds == SeqsUpTo({"new", "dup", "readme"}, MaxLinks)

-----------------------------------------------------------------------------
(* build_ilcs_index                                                        *)

NoEntry == [label |-> <<>>, href |-> <<>>]

CrawlIdle ==
    /\ cpc = "idle"
    /\ chapters_data = <<>>
    /\ acts_data = <<>>
    /\ ci = 0
    /\ ai = 0
    /\ df_index = <<>>
    /\ exc = ""
    /\ fetches = <<>>

\* chapters_data.loc[chapters_data['href'] == url, 'label'].values[0]
LabelOfHref(data, url) ==
    data[SetMin({i \in 1..Len(data) : data[i].href = url})].label

Fetched(level, outcome, chapter, act, r) ==
    [level |-> level, outcome |-> outcome, chapter |-> chapter, act |-> act,
     raised |-> r.raised, entries |-> r.data]

\* chapters_data = _get_pages(base_url, root_path), and it raises
RootFetchRaises ==
    /\ cpc = "root"
    /\ \E outcome \in Outcomes, kinds \in PageKinds :
          LET r == GetPages(outcome, Page("root", <<>>, kinds))
          IN  /\ r.raised # ""
              /\ exc' = r.raised
              /\ fetches' = Append(fetches, Fetched("root", outcome, NoEntry, NoEntry, r))
    /\ cpc' = "raised"
    /\ UNCHANGED <<chapters_data, acts_data, ci, ai, df_index>>
    /\ UNCHANGED notCrawl

\* chapters_data = _get_pages(base_url, root_path)
RootFetch ==
    /\ cpc = "root"
    /\ \E outcome \in Outcomes, kinds \in PageKinds :
          LET r == GetPages(outcome, Page("root", <<>>, kinds))
          IN  /\ r.raised = ""
              /\ chapters_data' = r.data
              /\ fetches' = Append(fetches, Fetched("root", outcome, NoEntry, NoEntry, r))
    /\ ci' = 1
    /\ cpc' = "chapters"
    /\ UNCHANGED <<acts_data, ai, df_index, exc>>
    /\ UNCHANGED notCrawl

\* for chapter_url in chapters_data['href']: acts_data = _get_pages(...) raises
ChapterFetchRaises ==
    /\ cpc = "chapters"
    /\ ci <= Len(chapters_data)
    /\ \E outcome \in Outcomes, kinds \in PageKinds :
          LET url == chapters_data[ci].href
              r == GetPages(outcome, Page("chapter", url, kinds))
          IN  /\ r.raised # ""
              /\ exc' = r.raised
              /\ fetches' = Append(fetches,
                     Fetched("chapter", outcome, chapters_data[ci], NoEntry, r))
    /\ cpc' = "raised"
    /\ UNCHANGED <<chapters_data, acts_data, ci, ai, df_index>>
    /\ UNCHANGED notCrawl

\* for chapter_url in chapters_data['href']: acts_data = _get_pages(...)
ChapterFetch ==
    /\ cpc = "chapters"
    /\ ci <= Len(chapters_data)
    /\ \E outcome \in Outcomes, kinds \in PageKinds :
          LET url == chapters_data[ci].href
              r == GetPages(outcome, Page("chapter", url, kinds))
          IN  /\ r.raised = ""
              /\ acts_data' = r.data
              /\ fetches' = Append(fetches,
                     Fetched("chapter", outcome, chapters_data[ci], NoEntry, r))
    /\ ai' = 1
    /\ cpc' = "acts"
    /\ UNCHANGED <<chapters_data, ci, df_index, exc>>
    /\ UNCHANGED notCrawl

\* for act_url in acts_data['href']: sections_data = _get_pages(...) raises
ActFetchRaises ==
    /\ cpc = "acts"
    /\ ai <= Len(acts_data)
    /\ \E outcome \in Outcomes, kinds \in PageKinds :
          LET url == acts_data[ai].href
              r == GetPages(outcome, Page("act", url, kinds))
          IN  /\ r.raised # ""
              /\ exc' = r.raised
              /\ fetches' = Append(fetches,
                     Fetched("act", outcome, chapters_data[ci], acts_data[ai], r))
    /\ cpc' = "raised"
    /\ UNCHANGED <<chapters_data, acts_data, ci, ai, df_index>>
    /\ UNCHANGED notCrawl

\* One index row before classification
SectionRow(chapter_name, chapter_url, act_name, act_url, sec) ==
    [chapter_name |-> chapter_name, chapter_url |-> chapter_url,
     act_name |-> act_name, act_url |-> act_url,
     section_file |-> sec.label, section_url |-> sec.href]

\* for act_url in acts_data['href']: fetch the sections, annotate them with
\* the chapter and act, and concat them to df_index
ActFetch ==
    /\ cpc = "acts"
    /\ ai <= Len(acts_data)
    /\ \E outcome \in Outcomes, kinds \in PageKinds :
          LET chapter_url  == chapters_data[ci].href
              chapter_name == LabelOfHref(chapters_data, chapter_url)
              act_url      == acts_data[ai].href
              act_name     == LabelOfHref(acts_data, act_url)
              r == GetPages(outcome, Page("act", act_url, kinds))
          IN  /\ r.raised = ""
              /\ df_index' = df_index \o
                     [k \in 1..Len(r.data) |->
                        SectionRow(chapter_name, chapter_url, act_name, act_url, r.data[k])]
              /\ fetches' = Append(fetches,
                     Fetched("act", outcome, chapters_data[ci], acts_data[ai], r))
    /\ ai' = ai + 1
    /\ UNCHANGED <<cpc, chapters_data, acts_data, ci, exc>>
    /\ UNCHANGED notCrawl

\* the inner loop is exhausted: next chapter
ActsDone ==
    /\ cpc = "acts"
    /\ ai > Len(acts_data)
    /\ ci' = ci + 1
    /\ cpc' = "chapters"
    /\ UNCHANGED <<chapters_data, acts_data, ai, df_index, exc, fetches>>
    /\ UNCHANGED notCrawl

\* One row with its classification columns
Classified(row) ==
    LET parsed == ParseFilestring(row.section_file)
    IN  [chapter_name |-> row.chapter_name, chapter_url |-> row.chapter_url,
         act_name |-> row.act_name, act_url |-> row.act_url,
         section_file |-> row.section_file, section_url |-> row.section_url,
         ilcs_index_number |-> parsed[1],
         ilcs_index_type |-> parsed[2],
         ilcs_index_ext |-> parsed[3],
         ilcs_index_type_label |-> TypeLabel(parsed[2])]

\* the outer loop is exhausted: classify every section_file and return
ClassifyAndReturn ==
    /\ cpc = "chapters"
    /\ ci > Len(chapters_data)
    /\ df_index' = [k \in 1..Len(df_index) |-> Classified(df_index[k])]
    /\ cpc' = "returned"
    /\ UNCHANGED <<chapters_data, acts_data, ci, ai, exc, fetches>>
    /\ UNCHANGED notCrawl

CrawlInit ==
    /\ cpc = "root"
    /\ chapters_data = <<>>
    /\ acts_data = <<>>
    /\ ci = 0
    /\ ai = 0
    /\ df_index = <<>>
    /\ exc = ""
    /\ fetches = <<>>
    /\ FileIdle
    /\ BatchIdle
    /\ StatuteIdle

CrawlNext ==
    \/ RootFetch
    \/ RootFetchRaises
    \/ ChapterFetch
    \/ ChapterFetchRaises
    \/ ActFetch
    \/ ActFetchRaises
    \/ ActsDone
    \/ ClassifyAndReturn

SpecCrawl == CrawlInit /\ [][CrawlNext]_vars

-----------------------------------------------------------------------------
(* Filenames the classifier is run on                                      *)

MaxPieces == 2

\* The nine literal markers of the grammar
Markers ==
    { <<"A">>, <<"F">>, <<"K">>,
      <<"H", "A", "r", "t", ".">>, <<"H", "T", "i", "t", ".">>,
      <<"H", "P", "t", ".">>, <<"H", "D", "i", "v", ".">>,
      <<"H", "p", "r", "e", "c", ".">>, <<"H", "C", "h", ".">> }

HPrefixes ==
    { <<"H", "A", "r", "t">>, <<"H", "T", "i", "t">>, <<"H", "P", "t">>,
      <<"H", "D", "i", "v">>, <<"H", "p", "r", "e", "c">>, <<"H", "C", "h">> }

Codes ==
    { <<"0", "0", "5", "0", "0", "0", "0", "5", "0">>,
      <<"0", "0", "0", "0", ".", "h", "t", "m", "l">>,
      <<"K", "0", "H", "C", "h", ".", "0", "0", "A">>,
      <<"0", "0", "5", "K">>,
      <<>> }

Mids ==
    Markers \cup
    { <<>>,
      <<"H", "A", "r", "t", " ">>, <<"H", "C", "h", " ">>,
      <<"H", "A", "r", "t", ",">>, <<"H", "T", "i", "t", "5">>,
      <<"H", "P", "t", "\n">>, <<"H", "D", "i", "v">>, <<"x">> }

ResidPieces ==
    { <<"5">>, <<"0", "-", "1">>, Html, <<"h", "t", "m", "l">>, <<"K">> }

Suffixes == { Html, <<>>, <<".", "h", "t", "m">> }

FileInit ==
    /\ fpc = "start"
    /\ code \in Codes
    /\ mid \in Mids
    /\ resid \in {Flatten(ps) : ps \in SeqsUpTo(ResidPieces, MaxPieces)}
    /\ suffix \in Suffixes
    /\ s = code \o mid \o resid \o suffix
    /\ first_9_digits = <<>>
    /\ letters = <<>>
    /\ remaining_numbers = <<>>
    /\ ilcs_index_type_label = "-"
    /\ CrawlIdle
    /\ BatchIdle
    /\ StatuteIdle

\* parsed = df_index['section_file'].apply(_parse_filestring), one row
ParseStep ==
    /\ fpc = "start"
    /\ LET r == ParseFilestring(s)
       IN  /\ first_9_digits' = r[1]
           /\ letters' = r[2]
           /\ remaining_numbers' = r[3]
    /\ fpc' = "parsed"
    /\ UNCHANGED <<code, mid, resid, suffix, s, ilcs_index_type_label>>
    /\ UNCHANGED notFile

\* df_index['ilcs_index_type_label'] = ...map(mapping).fillna('Unknown')
LabelStep ==
    /\ fpc = "parsed"
    /\ ilcs_index_type_label' = TypeLabel(letters)
    /\ fpc' = "labelled"
    /\ UNCHANGED <<code, mid, resid, suffix, s,
                   first_9_digits, letters, remaining_numbers>>
    /\ UNCHANGED notFile

FileNext == ParseStep \/ LabelStep

SpecFile == FileInit /\ [][FileNext]_vars

-----------------------------------------------------------------------------
(* build_acts_text_table and build_statutes_text_table                     *)

MaxRows == 3

\* act_label="Act (F)" and section_label="Section (K)", the defaults
FilterLabel(fn) ==
    IF fn = "build_acts_text_table" THEN "Act (F)" ELSE "Section (K)"

RECURSIVE SelectByLabel(_, _)
SelectByLabel(rows, lab) ==
    IF rows = <<>> THEN <<>>
    ELSE (IF rows[1].ilcs_index_type_label = lab THEN <<rows[1]>> ELSE <<>>)
         \o SelectByLabel(Tail(rows), lab)

\* df_urls[df_urls['ilcs_index_type_label'] == label]['section_url']
FilteredUrls(fn, index) ==
    LET sel == SelectByLabel(index, FilterLabel(fn))
    IN  [k \in 1..Len(sel) |-> sel[k].section_url]

\* The try body with the except clause dropped from the loop: the row is
\* concatenated whether or not parse_fn raised.
AfterParseKeepingFailed(text, url, outcome) ==
    Append(text, [section_url |-> url, parsed_from |-> url])

\* One pass of the loop body: parse_fn's one-row frame gets its
\* section_url and is concatenated; any Exception is printed and the URL
\* skipped.
AfterParse(text, url, outcome) ==
    IF outcome = "ok"
    THEN Append(text, [section_url |-> url, parsed_from |-> url])
    ELSE text

\* The rows of `right` whose section_url is url, in order
RECURSIVE MatchesOf(_, _)
MatchesOf(url, right) ==
    IF right = <<>> THEN <<>>
    ELSE (IF right[1].section_url = url THEN <<right[1]>> ELSE <<>>)
         \o MatchesOf(url, Tail(right))

\* pd.merge(left, right[['section_url','section_file']], how='left',
\* on='section_url'): every left row in order, once per matching right
\* row, or once with a missing section_file when none matches
RECURSIVE MergeLeft(_, _)
MergeLeft(left, right) ==
    IF left = <<>> THEN <<>>
    ELSE LET row == Head(left)
             ms  == MatchesOf(row.section_url, right)
         IN  (IF ms = <<>>
              THEN <<[section_url |-> row.section_url,
                      parsed_from |-> row.parsed_from, section_file |-> "NaN"]>>
              ELSE [k \in 1..Len(ms) |->
                      [section_url |-> row.section_url,
                       parsed_from |-> row.parsed_from,
                       section_file |-> ms[k].section_file]])
             \o MergeLeft(Tail(left), right)

IndexRows ==
    [section_url : {"/u1", "/u2", "/u3"}, section_file : {"f1", "f2"},
     ilcs_index_type_label : {"Act (F)", "Section (K)"}]

BatchInit ==
    /\ bpc = "loop"
    /\ table_fn \in {"build_acts_text_table", "build_statutes_text_table"}
    /\ df_urls \in SeqsUpTo(IndexRows, MaxRows)
    /\ bi = 1
    /\ df_text = <<>>
    /\ parses = <<>>
    /\ FileIdle
    /\ CrawlIdle
    /\ StatuteIdle

\* for url in tqdm(df['section_url']): try: parse_fn(url) ... except ...
ParseOne ==
    /\ bpc = "loop"
    /\ bi <= Len(FilteredUrls(table_fn, df_urls))
    /\ \E outcome \in {"ok", "raised"} :
          LET url == FilteredUrls(table_fn, df_urls)[bi]
          IN  /\ df_text' = AfterParse(df_text, url, outcome)
              /\ parses' = Append(parses, [url |-> url, outcome |-> outcome])
    /\ bi' = bi + 1
    /\ UNCHANGED <<bpc, table_fn, df_urls>>
    /\ UNCHANGED notBatch

\* the loop is exhausted: merge section_file in and return
MergeAndReturn ==
    /\ bpc = "loop"
    /\ bi > Len(FilteredUrls(table_fn, df_urls))
    /\ df_text' = MergeLeft(df_text, df_urls)
    /\ bpc' = "returned"
    /\ UNCHANGED <<table_fn, df_urls, bi, parses>>
    /\ UNCHANGED notBatch

BatchNext == ParseOne \/ MergeAndReturn

SpecBatch == BatchInit /\ [][BatchNext]_vars

-----------------------------------------------------------------------------
(* parse_statute_page                                                      *)

MaxNodes == 4

\* the non-breaking space, one character
NBSP == "nbsp"

\* what str.strip() removes
Whitespace == {" ", "\n", NBSP}

SecPrefix == <<"S", "e", "c", ".">>

SourcePrefix == <<"(", "S", "o", "u", "r", "c", "e", ":">>

AmendmentMarker ==
    <<"T", "e", "x", "t", " ", "o", "f", " ", "S", "e", "c", "t", "i", "o", "n",
      " ", "a", "f", "t", "e", "r", " ", "a", "m", "e", "n", "d", "m", "e", "n", "t">>

RECURSIVE LStrip(_)
LStrip(str) ==
    IF str # <<>> /\ Head(str) \in Whitespace THEN LStrip(Tail(str)) ELSE str

RECURSIVE RStrip(_)
RStrip(str) ==
    IF str # <<>> /\ str[Len(str)] \in Whitespace
    THEN RStrip(SubSeq(str, 1, Len(str) - 1)) ELSE str

\* str.strip()
Strip(str) == RStrip(LStrip(str))

\* str.startswith(pre)
StartsWith(str, pre) == OccursAt(str, pre, 0)

\* sub in str
Contains(str, sub) == PyFind(str, sub, 0) # -1

\* sep.join(parts)
RECURSIVE Join(_, _)
Join(parts, sep) ==
    IF parts = <<>> THEN <<>>
    ELSE IF Len(parts) = 1 THEN parts[1]
    ELSE parts[1] \o sep \o Join(Tail(parts), sep)

\* str.split(c), c one character
RECURSIVE Split(_, _)
Split(str, c) ==
    LET at == PyFind(str, <<c>>, 0)
    IN  IF at = -1 THEN <<str>>
        ELSE <<PySlice(str, 0, at)>> \o Split(PySliceFrom(str, at + 1), c)

\* str.replace('\xa0', ' ').count(' ')
SpaceCount(str) == Cardinality({i \in 1..Len(str) : str[i] \in {" ", NBSP}})

Spaces(n) == [i \in 1..n |-> " "]

\* soup.body.get_text(separator='\n', strip=True): every text node
\* stripped, the empty ones dropped, joined by newlines
RECURSIVE StrippedStrings(_)
StrippedStrings(ns) ==
    IF ns = <<>> THEN <<>>
    ELSE (IF Strip(ns[1].text) = <<>> THEN <<>> ELSE <<Strip(ns[1].text)>>)
         \o StrippedStrings(Tail(ns))

GetText(ns) == Join(StrippedStrings(ns), <<"\n">>)

\* The amendment branch with the split forgotten: the flag is set and the
\* whole text is kept.
AfterAmendmentKeepingAll(text) ==
    [amended |-> Contains(text, AmendmentMarker), cut |-> 0, text |-> text]

\* if marker in all_text: amended = True; all_text = all_text.split(marker, 1)[1]
AfterAmendment(text) ==
    IF Contains(text, AmendmentMarker)
    THEN LET from == PyFind(text, AmendmentMarker, 0) + Len(AmendmentMarker)
         IN  [amended |-> TRUE, cut |-> from, text |-> PySliceFrom(text, from)]
    ELSE [amended |-> FALSE, cut |-> 0, text |-> text]

\* The section test without its `and not found_section`
IsSectionLineEveryTime(line, found) == StartsWith(line, SecPrefix)

\* line.startswith('Sec.') and not found_section
IsSectionLine(line, found) == StartsWith(line, SecPrefix) /\ ~found

\* line.split('.', 1): parts[1].strip() when there are two parts, else line
SectionNumberOf(line) ==
    LET at == PyFind(line, <<".">>, 0)
    IN  IF at # -1 THEN Strip(PySliceFrom(line, at + 1)) ELSE line

\* soup.find(string=re.compile(re.escape(line))): the first text node, in
\* document order, whose string contains line; 0 when there is none
FindString(ns, line) ==
    LET hits == {n \in 1..Len(ns) : ns[n].text # <<>> /\ Contains(ns[n].text, line)}
    IN  IF hits = {} THEN 0 ELSE SetMin(hits)

\* The walk over original_element.parent.previous_siblings: the strings
\* directly before node n, nearest first, up to the first tag
RECURSIVE LeadingWhitespace(_, _)
LeadingWhitespace(ns, n) ==
    IF n > 1 /\ ns[n - 1].kind = "text"
    THEN LeadingWhitespace(ns, n - 1) \o ns[n - 1].text
    ELSE <<>>

\* The line as it is appended to statute_text_lines. The parent of a
\* string inside an element is that element; the parent of a string lying
\* directly in <body> is <body>, which no space-bearing string precedes.
IndentedLine(ns, line) ==
    LET n == FindString(ns, line)
    IN  IF n = 0 THEN line
        ELSE LET leading_whitespace ==
                     IF ns[n].kind = "elem" THEN LeadingWhitespace(ns, n) ELSE <<>>
             IN  Spaces(SpaceCount(leading_whitespace)) \o line

\* The children of <body>: an element holding one string (or none), or a
\* string lying between the elements
NodeKinds ==
    { [kind |-> "elem", text |-> SecPrefix \o <<" ", "1">>],
      [kind |-> "elem", text |-> SourcePrefix \o <<" ", "P", ")">>],
      [kind |-> "elem", text |-> <<"q">>],
      [kind |-> "elem", text |-> <<"z", "q">>],
      [kind |-> "elem", text |-> AmendmentMarker],
      [kind |-> "elem", text |-> <<>>],
      [kind |-> "text", text |-> <<NBSP, NBSP>>],
      [kind |-> "text", text |-> <<" ", "q">>] }

StatuteInit ==
    /\ spc = "flatten"
    /\ nodes \in SeqsUpTo(NodeKinds, MaxNodes)
    /\ all_text = <<>>
    /\ cut = 0
    /\ lines = <<>>
    /\ li = 0
    /\ found_section = FALSE
    /\ found_statute_text = FALSE
    /\ section_number = <<>>
    /\ source = <<>>
    /\ amended_statute = FALSE
    /\ statute_text_lines = <<>>
    /\ statute_text = <<>>
    /\ captured = <<>>
    /\ sec_line = 0
    /\ src_line = 0
    /\ FileIdle
    /\ CrawlIdle
    /\ BatchIdle

scanFlags == <<found_section, found_statute_text>>

scanOutputs == <<section_number, source, statute_text_lines, captured, sec_line, src_line>>

\* all_text = soup.body.get_text(...); the amendment check; lines = split
FlattenBody ==
    /\ spc = "flatten"
    /\ all_text' = GetText(nodes)
    /\ LET a == AfterAmendment(all_text')
       IN  /\ amended_statute' = a.amended
           /\ cut' = a.cut
           /\ lines' = Split(a.text, "\n")
    /\ li' = 1
    /\ spc' = "scan"
    /\ UNCHANGED <<nodes, scanFlags, scanOutputs, statute_text>>
    /\ UNCHANGED notStatute

Scanning == spc = "scan" /\ li <= Len(lines)

\* if not line: continue
SkipEmptyLine ==
    /\ Scanning
    /\ Strip(lines[li]) = <<>>
    /\ li' = li + 1
    /\ UNCHANGED <<spc, nodes, all_text, cut, lines, amended_statute,
                   scanFlags, scanOutputs, statute_text>>
    /\ UNCHANGED notStatute

\* if line.startswith('Sec.') and not found_section: ...
SectionLine ==
    /\ Scanning
    /\ LET line == Strip(lines[li])
       IN  /\ line # <<>>
           /\ IsSectionLine(line, found_section)
           /\ section_number' = SectionNumberOf(line)
    /\ found_section' = TRUE
    /\ found_statute_text' = TRUE
    /\ sec_line' = li
    /\ li' = li + 1
    /\ UNCHANGED <<spc, nodes, all_text, cut, lines, amended_statute,
                   source, statute_text_lines, captured, src_line, statute_text>>
    /\ UNCHANGED notStatute

\* if line.startswith('(Source:'): ...
SourceLine ==
    /\ Scanning
    /\ LET line == Strip(lines[li])
       IN  /\ line # <<>>
           /\ ~IsSectionLine(line, found_section)
           /\ StartsWith(line, SourcePrefix)
           /\ source' = line
    /\ found_statute_text' = FALSE
    /\ src_line' = li
    /\ li' = li + 1
    /\ UNCHANGED <<spc, nodes, all_text, cut, lines, amended_statute, found_section,
                   section_number, statute_text_lines, captured, sec_line, statute_text>>
    /\ UNCHANGED notStatute

\* if found_statute_text: look the line up and append it with its indent
BodyLine ==
    /\ Scanning
    /\ found_statute_text
    /\ LET line == Strip(lines[li])
       IN  /\ line # <<>>
           /\ ~IsSectionLine(line, found_section)
           /\ ~StartsWith(line, SourcePrefix)
           /\ statute_text_lines' = Append(statute_text_lines, IndentedLine(nodes, line))
    /\ captured' = Append(captured, li)
    /\ li' = li + 1
    /\ UNCHANGED <<spc, nodes, all_text, cut, lines, amended_statute, scanFlags,
                   section_number, source, sec_line, src_line, statute_text>>
    /\ UNCHANGED notStatute

\* any other line while not capturing: nothing happens
OtherLine ==
    /\ Scanning
    /\ ~found_statute_text
    /\ LET line == Strip(lines[li])
       IN  /\ line # <<>>
           /\ ~IsSectionLine(line, found_section)
           /\ ~StartsWith(line, SourcePrefix)
    /\ li' = li + 1
    /\ UNCHANGED <<spc, nodes, all_text, cut, lines, amended_statute,
                   scanFlags, scanOutputs, statute_text>>
    /\ UNCHANGED notStatute

\* data['statute_text'] = '\n'.join(statute_text_lines).strip(); return
JoinAndReturn ==
    /\ spc = "scan"
    /\ li > Len(lines)
    /\ statute_text' = Strip(Join(statute_text_lines, <<"\n">>))
    /\ spc' = "done"
    /\ UNCHANGED <<nodes, all_text, cut, lines, li, amended_statute,
                   scanFlags, scanOutputs>>
    /\ UNCHANGED notStatute

StatuteNext ==
    \/ FlattenBody
    \/ SkipEmptyLine
    \/ SectionLine
    \/ SourceLine
    \/ BodyLine
    \/ OtherLine
    \/ JoinAndReturn

SpecStatute == StatuteInit /\ [][StatuteNext]_vars

-----------------------------------------------------------------------------
(* Properties of the filename classifier                                   *)


Returned == <<first_9_digits, letters, remaining_numbers>>

\* One of the nine literal markers stands in str at 0-based offset i
LiteralMarkerAt(str, i) == \E m \in Markers : OccursAt(str, m, i)

\* A, F or K, or one of the H-prefixes followed by one more character
\* that is not a newline, stands in str at 0-based offset i
PatternAt(str, i) ==
    \/ \E c \in {"A", "F", "K"} : OccursAt(str, <<c>>, i)
    \/ \E p \in HPrefixes :
          /\ OccursAt(str, p, i)
          /\ i + Len(p) < Len(str)
          /\ str[i + Len(p) + 1] # "\n"

ContainsHtml(str) == \E i \in 0..Len(str) : OccursAt(str, Html, i)

WellFormedName ==
    /\ Len(code) = CodeLen
    /\ mid \in Markers
    /\ suffix = Html

\* C1 as stated: every <code><marker><residual>.html, for any 9-character
\* code and any residual, parses to exactly (code, marker, residual).
C1_AnyCodeAnyResidual ==
    (fpc # "start" /\ WellFormedName) => Returned = <<code, mid, resid>>

\* C1 (amended): a filename <code><marker><residual>.html whose only
\* occurrence of ".html" is the final suffix parses to exactly
\* (code, marker, residual).
C1_ExactTriple ==
    ( /\ fpc # "start"
      /\ WellFormedName
      /\ \A i \in 0..(Len(s) - Len(Html) - 1) : ~OccursAt(s, Html, i) )
    => Returned = <<code, mid, resid>>

C1_Witness ==
    /\ fpc = "parsed"
    /\ code = Digits9
    /\ mid = <<"H", "A", "r", "t", ".">>
    /\ resid = <<"0", "-", "1", "5">>
    /\ suffix = Html
    /\ Returned = <<code, mid, resid>>

NoMarkerResult ==
    /\ first_9_digits = SubSeq(s, 1, IMin(CodeLen, Len(s)))
    /\ letters = <<>>
    /\ remaining_numbers = <<>>
    /\ (fpc = "labelled" => ilcs_index_type_label = "Unknown")

\* C8 as stated: when none of the nine literal markers occurs at or after
\* offset 9, the result is (first up-to-9 characters, "", "") and the
\* label is "Unknown".
C8_NoLiteralMarker ==
    ( /\ fpc # "start"
      /\ \A i \in CodeLen..Len(s) : ~LiteralMarkerAt(s, i) )
    => NoMarkerResult

\* C8 (amended): when neither A, F, K nor one of HArt, HTit, HPt, HDiv,
\* Hprec, HCh followed by one more non-newline character occurs at or
\* after offset 9 (filenames shorter than 9 characters included), the
\* result is (first up-to-9 characters, "", "") and the label is "Unknown".
C8_NoPatternMatch ==
    ( /\ fpc # "start"
      /\ \A i \in CodeLen..Len(s) : ~PatternAt(s, i) )
    => NoMarkerResult

C8_Witness ==
    /\ fpc = "labelled"
    /\ code = <<"K", "0", "H", "C", "h", ".", "0", "0", "A">>
    /\ mid = <<"x">>
    /\ resid = <<"5">>
    /\ suffix = Html
    /\ letters = <<>>
    /\ ilcs_index_type_label = "Unknown"

\* a filename shorter than 9 characters, parsed and labelled
C8_ShortNameReached ==
    /\ fpc = "labelled"
    /\ s = <<"0", "0", "5", "K">>
    /\ Returned = <<s, <<>>, <<>>>>

\* C9: a filename with a recognized marker at or after offset 9 and no
\* ".html" anywhere yields an empty residual.
C9_EmptyResidualWithoutHtml ==
    ( /\ fpc # "start"
      /\ \E i \in CodeLen..Len(s) : LiteralMarkerAt(s, i)
      /\ ~ContainsHtml(s) )
    => remaining_numbers = <<>>

\* C10 as stated: the returned marker is empty or one of the nine literal
\* markers, so 'HArt ', 'HCh ' and 'HArt,' are never produced.
C10_OnlyLiteralMarkers == letters \in ({<<>>} \cup Markers)

\* C10 (amended): the returned marker is empty, or A, F or K, or one of
\* HArt, HTit, HPt, HDiv, Hprec, HCh followed by exactly one character
\* that is not a newline.
C10_MarkerShape ==
    \/ letters = <<>>
    \/ letters \in {<<"A">>, <<"F">>, <<"K">>}
    \/ /\ Len(letters) >= 2
       /\ SubSeq(letters, 1, Len(letters) - 1) \in HPrefixes
       /\ letters[Len(letters)] # "\n"

\* ... and the mapping keys 'HArt ' and friends are produced and labelled.
C10_Witness ==
    /\ fpc = "labelled"
    /\ letters = <<"H", "A", "r", "t", " ">>
    /\ ilcs_index_type_label = "Article (HArtDiv)"

-----------------------------------------------------------------------------
(* Properties of the crawl                                                 *)

CrawlEnded == cpc \in {"returned", "raised"}

\* The six crawl columns of an index row
CrawlColumns(row) ==
    [chapter_name |-> row.chapter_name, chapter_url |-> row.chapter_url,
     act_name |-> row.act_name, act_url |-> row.act_url,
     section_file |-> row.section_file, section_url |-> row.section_url]

\* The rows the served listings call for: for every act listing that was
\* served, in order, one row per section entry, carrying the chapter and
\* act entries under which it was served
RECURSIVE ExpectedRows(_)
ExpectedRows(fs) ==
    IF fs = <<>> THEN <<>>
    ELSE LET f == Head(fs)
         IN  (IF f.level = "act" /\ f.raised = ""
              THEN [k \in 1..Len(f.entries) |->
                      SectionRow(f.chapter.label, f.chapter.href,
                                 f.act.label, f.act.href, f.entries[k])]
              ELSE <<>>)
             \o ExpectedRows(Tail(fs))

FetchesAt(level) == {i \in 1..Len(fetches) : fetches[i].level = level}

\* C2: with every fetch succeeding, the crawl returns one record per
\* section entry in listing order (N*M*S of them on a uniform site), each
\* carrying the label and href of its chapter and act entries.
C2_AllSectionsIndexed ==
    (CrawlEnded /\ \A i \in 1..Len(fetches) : fetches[i].outcome = "ok")
    => /\ cpc = "returned"
       /\ [k \in 1..Len(df_index) |-> CrawlColumns(df_index[k])] = ExpectedRows(fetches)
       /\ \A M, S \in 0..(MaxLinks + 1) :
             ( /\ \A i \in FetchesAt("chapter") : Len(fetches[i].entries) = M
               /\ \A i \in FetchesAt("act") : Len(fetches[i].entries) = S )
             => Len(df_index) = Len(fetches[1].entries) * M * S

\* C3: a chapter or act whose listing fetch fails (the fetch layer returns
\* its 'no result' value) does not abort the crawl.
C3_FailedNodeDoesNotAbort ==
    ~ ( /\ cpc = "raised"
        /\ fetches[Len(fetches)].level \in {"chapter", "act"}
        /\ fetches[Len(fetches)].outcome \in {"Timeout", "ConnectionError", "HTTPError"} )

-----------------------------------------------------------------------------
(* Properties of the table builders                                        *)

RECURSIVE ParsedOk(_)
ParsedOk(ps) ==
    IF ps = <<>> THEN <<>>
    ELSE (IF ps[1].outcome = "ok" THEN <<ps[1].url>> ELSE <<>>) \o ParsedOk(Tail(ps))

\* One record per URL whose parse succeeded, in iteration order, and the
\* whole filtered column was iterated
OneRecordPerParsedUrl ==
    /\ Len(parses) = Len(FilteredUrls(table_fn, df_urls))
    /\ [k \in 1..Len(df_text) |-> df_text[k].parsed_from] = ParsedOk(parses)

\* C4 as stated: for any index, the returned table holds exactly one record
\* per filtered URL whose parse succeeded, in iteration order, and none for
\* a URL whose parse raised.
C4_AnyIndex == bpc = "returned" => OneRecordPerParsedUrl

\* No filtered URL is the section_url of a second index row
FilteredUrlsUnique ==
    \A i, j \in 1..Len(df_urls) :
        ( /\ df_urls[i].ilcs_index_type_label = FilterLabel(table_fn)
          /\ df_urls[i].section_url = df_urls[j].section_url ) => i = j

\* C4 (amended): for any index in which no filtered URL is the section_url
\* of more than one index row, the returned table holds exactly one record
\* per filtered URL whose parse succeeded, in iteration order, and none for
\* a URL whose parse raised.
C4_UniqueUrls ==
    (bpc = "returned" /\ FilteredUrlsUnique) => OneRecordPerParsedUrl

C4_Witness ==
    /\ bpc = "returned"
    /\ FilteredUrlsUnique
    /\ Len(df_urls) = 3
    /\ [k \in 1..Len(parses) |-> parses[k].outcome] = <<"raised", "ok">>
    /\ Len(df_text) = 1

-----------------------------------------------------------------------------
(* Properties of parse_statute_page                                        *)

Scanned == spc \in {"scan", "done"}

LineText(i) == Strip(lines[i])

\* Where line i starts in the flattened text of the whole body
RECURSIVE LineOrigin(_)
LineOrigin(i) ==
    IF i = 1 THEN cut ELSE LineOrigin(i - 1) + Len(lines[i - 1]) + 1

SecLines == {i \in 1..Len(lines) : StartsWith(LineText(i), SecPrefix)}

SourceLines == {i \in 1..Len(lines) : StartsWith(LineText(i), SourcePrefix)}

\* Line i lies after the first "Sec." line and before the first later
\* "(Source:" line, and is not empty
InBody(i) ==
    /\ SecLines # {}
    /\ i > SetMin(SecLines)
    /\ \A j \in SourceLines : ~(SetMin(SecLines) < j /\ j <= i)
    /\ LineText(i) # <<>>

\* The body lines among the first n lines, in order
RECURSIVE BodyLinesUpTo(_)
BodyLinesUpTo(n) ==
    IF n = 0 THEN <<>>
    ELSE BodyLinesUpTo(n - 1) \o (IF InBody(n) THEN <<n>> ELSE <<>>)

\* C5: the captured body is exactly the non-empty lines after the first
\* line starting with "Sec." and before the first later line starting with
\* "(Source:", in order; nothing before the section line, no source line
\* and nothing after that source line is ever added.
C5_BodyBetweenSectionAndSource ==
    Scanned =>
        /\ captured = BodyLinesUpTo(li - 1)
        /\ Len(statute_text_lines) = Len(captured)
        /\ \A k \in 1..Len(captured) :
              LStrip(statute_text_lines[k]) = LineText(captured[k])

C5_Witness ==
    /\ spc = "done"
    /\ Len(lines) = 4
    /\ sec_line = 1
    /\ captured = <<2>>
    /\ src_line = 3
    /\ LineText(4) = <<"q">>

\* Some string of the body contains the amendment marker
DocumentHasMarker ==
    \E n \in 1..Len(nodes) : \E i \in 0..Len(nodes[n].text) :
        OccursAt(Strip(nodes[n].text), AmendmentMarker, i)

\* Where the text after the first marker starts in the flattened text
FirstMarkerEnd ==
    SetMin({i \in 0..Len(all_text) : OccursAt(all_text, AmendmentMarker, i)})
    + Len(AmendmentMarker)

\* Line i is a piece of the flattened text lying after the first marker
TakenAfterMarker(i) ==
    /\ LineOrigin(i) >= FirstMarkerEnd
    /\ SubSeq(all_text, LineOrigin(i) + 1, LineOrigin(i) + Len(lines[i])) = lines[i]

\* C6: amended_statute is true iff the flattened text contains "Text of
\* Section after amendment", and then section_number, source and every
\* body line are taken from text after the first occurrence of the marker.
C6_AmendedTextOnly ==
    Scanned =>
        /\ amended_statute <=> DocumentHasMarker
        /\ amended_statute =>
              /\ \A k \in 1..Len(captured) :
                    /\ TakenAfterMarker(captured[k])
                    /\ LStrip(statute_text_lines[k]) = LineText(captured[k])
              /\ sec_line # 0 =>
                    /\ TakenAfterMarker(sec_line)
                    /\ section_number = SectionNumberOf(LineText(sec_line))
              /\ src_line # 0 =>
                    /\ TakenAfterMarker(src_line)
                    /\ source = LineText(src_line)

C6_Witness ==
    /\ spc = "done"
    /\ Len(nodes) = 4
    /\ StartsWith(nodes[1].text, SecPrefix)
    /\ nodes[2].text = AmendmentMarker
    /\ amended_statute
    /\ sec_line = 2
    /\ captured = <<3>>

\* The strings get_text keeps, each with its node and where it starts in
\* the flattened text
RECURSIVE StringSpans(_, _, _)
StringSpans(ns, n, at) ==
    IF n > Len(ns) THEN <<>>
    ELSE IF Strip(ns[n].text) = <<>> THEN StringSpans(ns, n + 1, at)
    ELSE <<[node |-> n, from |-> at, to |-> at + Len(Strip(ns[n].text))]>>
         \o StringSpans(ns, n + 1, at + Len(Strip(ns[n].text)) + 1)

\* The node whose string line i is (part of)
OwnNode(i) ==
    LET spans == StringSpans(nodes, 1, 0)
        k == CHOOSE k \in 1..Len(spans) :
                spans[k].from <= LineOrigin(i) /\ LineOrigin(i) < spans[k].to
    IN  spans[k].node

\* C7: every captured body line, whatever its position, whose preceding
\* sibling text fragments hold k spaces or non-breaking spaces stands in
\* statute_text with exactly k leading spaces.
C7_IndentRoundTrip ==
    spc = "done" =>
        \A k \in 1..Len(captured) :
            LET n == OwnNode(captured[k])
            IN  nodes[n].kind = "elem" =>
                   Split(statute_text, "\n")[k] =
                      Spaces(SpaceCount(LeadingWhitespace(nodes, n)))
                      \o LineText(captured[k])

=============================================================================
